---- MODULE Spec2Model ----
(***************************************************************************)
(* A model of sql_agent.py: the table detector, the SQL post-processing,   *)
(* the read-only guard and the two request handlers running on one         *)
(* cooperative event loop.                                                 *)
(*                                                                         *)
(* Text is a sequence of one-character strings, so that str.lower(),       *)
(* str.strip(), str.replace(), str.startswith() and the "in" operator are  *)
(* computed character by character as Python computes them.               *)
(***************************************************************************)
EXTENDS Integers, Sequences, FiniteSets, TLC

VARIABLES
    catalog,    \* the content of the database's information_schema
    pc,         \* pc[r]: where request r's handler is suspended
    endpoint,   \* endpoint[r]: "generate" (/generate-sql) or "execute" (/execute-sql)
    question,   \* payload.question of request r
    table,      \* the table detect_table returned to get_schema_for_question
    columns,    \* schema["columns"] of request r
    sql,        \* the sql local of the route
    raised,     \* the exception raised inside the route's try block, if any
    resp,       \* the HTTP response of request r
    calls,      \* the calls request r made to its collaborators, in order
    loop,       \* the request whose code runs on the event loop's thread (0: none)
    arg,        \* the input of the function applied on its own
    out         \* the results of its successive applications

vars == <<catalog, pc, endpoint, question, table, columns, sql, raised, resp,
          calls, loop, arg, out>>

handlerVars == <<catalog, pc, endpoint, question, table, columns, sql, raised,
                 resp, calls, loop>>

fnVars == <<arg, out>>

(***************************************************************************)
(* Python's str methods                                                    *)
(***************************************************************************)

UpperLetters == <<"A", "B", "C", "D", "E", "F", "G", "H", "I", "J", "K", "L", "M",
                  "N", "O", "P", "Q", "R", "S", "T", "U", "V", "W", "X", "Y", "Z">>

LowerLetters == <<"a", "b", "c", "d", "e", "f", "g", "h", "i", "j", "k", "l", "m",
                  "n", "o", "p", "q", "r", "s", "t", "u", "v", "w", "x", "y", "z">>

\* the lowercase letter of each uppercase letter
ToLower ==
    [c \in {UpperLetters[i] : i \in DOMAIN UpperLetters} |->
        LowerLetters[CHOOSE i \in DOMAIN UpperLetters : UpperLetters[i] = c]]

\* one character of str.lower()
LowerChar(c) == IF c \in DOMAIN ToLower THEN ToLower[c] ELSE c

\* str.lower()
Lower(s) == [i \in 1..Len(s) |-> LowerChar(s[i])]

\* the characters str.strip() removes (the ASCII ones)
IsSpace(c) == c \in {" ", "\t", "\n", "\r", "\f"}

RECURSIVE LStrip(_)
LStrip(s) == IF s # <<>> /\ IsSpace(Head(s)) THEN LStrip(Tail(s)) ELSE s

RECURSIVE RStrip(_)
RStrip(s) ==
    IF s # <<>> /\ IsSpace(s[Len(s)]) THEN RStrip(SubSeq(s, 1, Len(s) - 1)) ELSE s

\* str.strip()
Strip(s) == RStrip(LStrip(s))

\* str.startswith(prefix)
StartsWith(s, prefix) ==
    Len(prefix) <= Len(s) /\ SubSeq(s, 1, Len(prefix)) = prefix

\* needle in hay
Contains(hay, needle) ==
    \E i \in 0..(Len(hay) - Len(needle)) : SubSeq(hay, i + 1, i + Len(needle)) = needle

\* str.replace(old, ""): the non-overlapping occurrences of old, left to right
RECURSIVE Remove(_, _)
Remove(s, old) ==
    IF Len(s) < Len(old) THEN s
    ELSE IF StartsWith(s, old) THEN Remove(SubSeq(s, Len(old) + 1, Len(s)), old)
    ELSE <<Head(s)>> \o Remove(Tail(s), old)

Select == <<"s", "e", "l", "e", "c", "t">>

\* the character U+0060 (grave accent), which a TLA+ string literal cannot hold
Backtick == "<U+0060>"

\* the opening marker of a fenced SQL block: three grave accents and "sql"
FenceSql == <<Backtick, Backtick, Backtick, "s", "q", "l">>

\* the closing marker: three grave accents
Fence == <<Backtick, Backtick, Backtick>>

(***************************************************************************)
(* generate_sql's clean-up of the model's answer                           *)
(***************************************************************************)

\* the clean-up with the final strip() forgotten
PostProcessNoFinalStrip(content) == Remove(Remove(Strip(content), FenceSql), Fence)

\* content.strip().replace(FenceSql, "").replace(Fence, "").strip()
PostProcess(content) == Strip(Remove(Remove(Strip(content), FenceSql), Fence))

(***************************************************************************)
(* The read-only guard of execute_sql_route                                *)
(***************************************************************************)

\* a guard that looks for the keyword anywhere in the statement
GuardContains(s) == Contains(Lower(Strip(s)), Select)

\* a guard that forgets lower()
GuardCaseSensitive(s) == StartsWith(Strip(s), Select)

\* sql.strip().lower().startswith("select")
Guard(s) == StartsWith(Lower(Strip(s)), Select)

(***************************************************************************)
(* Exceptions and HTTP responses                                           *)
(***************************************************************************)

NoException == [kind |-> "none", status |-> 0, msg |-> "", candidates |-> <<>>]

\* HTTPException(status_code, detail); candidates is the list the f-string embeds
HTTPException(status_code, msg, candidates) ==
    [kind |-> "HTTPException", status |-> status_code, msg |-> msg,
     candidates |-> candidates]

\* what db.fetch_all raises when the round trip fails
DatabaseError ==
    [kind |-> "DatabaseError", status |-> 0, msg |-> "database error",
     candidates |-> <<>>]

\* what the OpenAI client raises, or what reading a malformed answer raises
OpenAIError ==
    [kind |-> "OpenAIError", status |-> 0, msg |-> "generation error",
     candidates |-> <<>>]

\* str(e): an HTTPException prints as "<status_code>: <detail>", any other
\* exception as its message (code 0: no status code in the text)
Str(e) ==
    [code |-> IF e.kind = "HTTPException" THEN e.status ELSE 0,
     msg |-> e.msg, candidates |-> e.candidates]

NoText == [code |-> 0, msg |-> "", candidates |-> <<>>]

NoResponse == [status |-> 0, prefix |-> "", detail |-> NoText, sql |-> <<>>, rows |-> <<>>]

\* QueryResponse(sql=sql): status 200, warning left at its default
QueryResponse(s) ==
    [status |-> 200, prefix |-> "", detail |-> NoText, sql |-> s, rows |-> <<>>]

\* ExecuteResponse(sql=sql, rows=[dict(r) for r in rows])
ExecuteResponse(s, rows) ==
    [status |-> 200, prefix |-> "", detail |-> NoText, sql |-> s, rows |-> rows]

\* an except clause that lets an HTTPException keep its own status
generate_sql_route_except_reraise(e) ==
    [status |-> IF e.kind = "HTTPException" THEN e.status ELSE 500,
     prefix |-> "", detail |-> Str(e), sql |-> <<>>, rows |-> <<>>]

\* except Exception as e: raise HTTPException(status_code=500, detail=str(e))
generate_sql_route_except(e) ==
    [status |-> 500, prefix |-> "", detail |-> Str(e), sql |-> <<>>, rows |-> <<>>]

\* except Exception as e:
\*     raise HTTPException(status_code=500, detail=f"Query failed: {str(e)}")
execute_sql_route_except(e) ==
    [status |-> 500, prefix |-> "Query failed: ", detail |-> Str(e), sql |-> <<>>,
     rows |-> <<>>]

(***************************************************************************)
(* The table detector                                                      *)
(***************************************************************************)

\* the list comprehension of detect_table, over the rows in the order fetched
Candidates(q, rows) == SelectSeq(rows, LAMBDA t : Contains(Lower(q), Lower(t)))

\* a detector that takes the first candidate when there are several
detect_table_first(q, rows) ==
    LET candidates == Candidates(q, rows)
    IN  IF Len(candidates) >= 1
        THEN [ok |-> TRUE, table |-> candidates[1], exc |-> NoException]
        ELSE [ok |-> FALSE, table |-> <<>>,
              exc |-> HTTPException(400, "Could not detect table. Matches: ",
                                    candidates)]

\* a detector that forgets to lowercase the question
detect_table_case_sensitive(q, rows) ==
    LET candidates == SelectSeq(rows, LAMBDA t : Contains(q, Lower(t)))
    IN  IF Len(candidates) = 1
        THEN [ok |-> TRUE, table |-> candidates[1], exc |-> NoException]
        ELSE [ok |-> FALSE, table |-> <<>>,
              exc |-> HTTPException(400, "Could not detect table. Matches: ",
                                    candidates)]

\* detect_table, given the rows its query fetched
detect_table(q, rows) ==
    LET candidates == Candidates(q, rows)
    IN  IF Len(candidates) = 1
        THEN [ok |-> TRUE, table |-> candidates[1], exc |-> NoException]
        ELSE [ok |-> FALSE, table |-> <<>>,
              exc |-> HTTPException(400, "Could not detect table. Matches: ",
                                    candidates)]

(***************************************************************************)
(* The database: its catalog views and the two Schema Inspector queries    *)
(***************************************************************************)

T_orders == <<"o", "r", "d", "e", "r", "s">>

T_order == <<"o", "r", "d", "e", "r">>

T_Users == <<"U", "s", "e", "r", "s">>

T_logs == <<"l", "o", "g", "s">>

TableRow(schema, name) == [schema |-> schema, name |-> name]

ColumnRow(schema, name, column, pos) ==
    [schema |-> schema, name |-> name, column |-> column, pos |-> pos]

\* orders exists in the application schema and in another one; logs only elsewhere
CatalogShadowed ==
    [tables |-> {TableRow("public", T_orders), TableRow("public", T_Users),
                 TableRow("audit", T_orders), TableRow("audit", T_logs)},
     columns |-> {ColumnRow("public", T_orders, "id", 1),
                  ColumnRow("public", T_orders, "total", 2),
                  ColumnRow("public", T_Users, "id", 1),
                  ColumnRow("public", T_Users, "name", 2),
                  ColumnRow("audit", T_orders, "actor", 1),
                  ColumnRow("audit", T_logs, "line", 1)}]

\* two application tables, one name a substring of the other
CatalogOverlapping ==
    [tables |-> {TableRow("public", T_orders), TableRow("public", T_order)},
     columns |-> {ColumnRow("public", T_orders, "id", 1),
                  ColumnRow("public", T_orders, "total", 2),
                  ColumnRow("public", T_order, "id", 1)}]

\* two application tables and nothing else
CatalogPlain ==
    [tables |-> {TableRow("public", T_orders), TableRow("public", T_Users)},
     columns |-> {ColumnRow("public", T_orders, "id", 1),
                  ColumnRow("public", T_orders, "total", 2),
                  ColumnRow("public", T_Users, "id", 1)}]

Catalogs == {CatalogShadowed, CatalogOverlapping, CatalogPlain}

\* the orders in which a query may return the rows S when nothing orders them
Orderings(S) ==
    {f \in [1..Cardinality(S) -> S] : \A i, j \in DOMAIN f : i # j => f[i] # f[j]}

\* SELECT table_name FROM information_schema.tables WHERE table_schema = 'public'
\* every sequence of table names the query may return (no ORDER BY)
list_tables(cat) ==
    {[i \in DOMAIN f |-> f[i].name] :
        f \in Orderings({t \in cat.tables : t.schema = "public"})}

\* SELECT column_name FROM information_schema.columns
\* WHERE table_name = :table ORDER BY ordinal_position
\* every sequence of column names the query may return (ties in any order)
list_columns(cat, name) ==
    {[i \in DOMAIN f |-> f[i].column] :
        f \in {g \in Orderings({c \in cat.columns : c.name = name}) :
                  \A i, j \in DOMAIN g : i < j => g[i].pos <= g[j].pos}}

(***************************************************************************)
(* The requests and their inputs                                           *)
(***************************************************************************)

NumRequests == 2

Requests == 1..NumRequests

Endpoints == {"generate", "execute"}

Q_orders == <<"a", "l", "l", " ", "O", "R", "D", "E", "R", "S">>

Q_none == <<"l", "o", "g", "s", "?">>

Questions == {Q_orders, Q_none}

R_fenced == FenceSql \o <<"\n", "S", "E", "L", "E", "C", "T", " ", "1", "\n">> \o Fence

R_delete == <<"D", "E", "L", "E", "T", "E", " ", "F", "R", "O", "M", " ", "t">>

R_cte == <<"w", "i", "t", "h", " ", "x", " ", "a", "s", " ", "(", "s", "e", "l", "e",
           "c", "t", " ", "1", ")">>

\* the answers the language model may give
Contents == {R_fenced, R_delete, R_cte}

\* the rows a SELECT may return
RowSets == {<<"row">>}

Call(op, name, cols, s) == [op |-> op, table |-> name, columns |-> cols, sql |-> s]

(***************************************************************************)
(* The request handlers.  A handler runs on the event loop's thread from   *)
(* one await to the next; generate_sql is an ordinary function whose       *)
(* OpenAI call is synchronous, so the handler keeps the thread (loop = r)  *)
(* from the call to its return.                                            *)
(***************************************************************************)

InitHandlers ==
    /\ catalog \in Catalogs
    /\ pc = [r \in Requests |-> "idle"]
    /\ endpoint = [r \in Requests |-> ""]
    /\ question = [r \in Requests |-> <<>>]
    /\ table = [r \in Requests |-> <<>>]
    /\ columns = [r \in Requests |-> <<>>]
    /\ sql = [r \in Requests |-> <<>>]
    /\ raised = [r \in Requests |-> NoException]
    /\ resp = [r \in Requests |-> NoResponse]
    /\ calls = [r \in Requests |-> <<>>]
    /\ loop = 0

Init == InitHandlers /\ arg = <<>> /\ out = <<>>

\* the except clause of request r's route catches e and answers
Fail(r, e) ==
    /\ raised' = [raised EXCEPT ![r] = e]
    /\ resp' = [resp EXCEPT ![r] = IF endpoint[r] = "generate"
                                   THEN generate_sql_route_except(e)
                                   ELSE execute_sql_route_except(e)]
    /\ pc' = [pc EXCEPT ![r] = "done"]

\* a request arrives; its route runs to the await in detect_table
Receive(r) ==
    /\ pc[r] = "idle"
    /\ loop = 0
    /\ \E e \in Endpoints, q \in Questions :
          /\ endpoint' = [endpoint EXCEPT ![r] = e]
          /\ question' = [question EXCEPT ![r] = q]
    /\ calls' = [calls EXCEPT ![r] = Append(@, Call("list_tables", <<>>, <<>>, <<>>))]
    /\ pc' = [pc EXCEPT ![r] = "await_tables"]
    /\ UNCHANGED fnVars
    /\ UNCHANGED <<catalog, table, columns, sql, raised, resp, loop>>

\* detect_table resumes with the table rows and runs to the await in
\* get_schema_for_question, or raises
detect_table_resume(r) ==
    /\ pc[r] = "await_tables"
    /\ loop = 0
    /\ \/ /\ Fail(r, DatabaseError)
          /\ UNCHANGED <<table, calls>>
       \/ \E rows \in list_tables(catalog) :
             LET d == detect_table(question[r], rows)
             IN  IF d.ok
                 THEN /\ table' = [table EXCEPT ![r] = d.table]
                      /\ calls' = [calls EXCEPT ![r] =
                                      Append(@, Call("list_columns", d.table, <<>>, <<>>))]
                      /\ pc' = [pc EXCEPT ![r] = "await_columns"]
                      /\ UNCHANGED <<raised, resp>>
                 ELSE /\ Fail(r, d.exc)
                      /\ UNCHANGED <<table, calls>>
    /\ UNCHANGED fnVars
    /\ UNCHANGED <<catalog, endpoint, question, columns, sql, loop>>

\* get_schema_for_question resumes with the column rows; the route calls
\* generate_sql, which sends the prompt and waits on the thread
get_schema_for_question_resume(r) ==
    /\ pc[r] = "await_columns"
    /\ loop = 0
    /\ \/ /\ Fail(r, DatabaseError)
          /\ UNCHANGED <<columns, calls, loop>>
       \/ \E cols \in list_columns(catalog, table[r]) :
             /\ columns' = [columns EXCEPT ![r] = cols]
             /\ calls' = [calls EXCEPT ![r] =
                             Append(@, Call("generate", table[r], cols, <<>>))]
             /\ pc' = [pc EXCEPT ![r] = "in_generate"]
             /\ loop' = r
             /\ UNCHANGED <<raised, resp>>
    /\ UNCHANGED fnVars
    /\ UNCHANGED <<catalog, endpoint, question, table, sql>>

\* the OpenAI call returns; the route runs to its return, to its raise, or
\* (execute only) to the await of the generated query
generate_sql_return(r) ==
    /\ pc[r] = "in_generate"
    /\ loop = r
    /\ loop' = 0
    /\ \/ /\ Fail(r, OpenAIError)
          /\ UNCHANGED <<sql, calls>>
       \/ \E content \in Contents :
             LET s == PostProcess(content)
             IN  /\ sql' = [sql EXCEPT ![r] = s]
                 /\ IF endpoint[r] = "generate"
                    THEN /\ resp' = [resp EXCEPT ![r] = QueryResponse(s)]
                         /\ pc' = [pc EXCEPT ![r] = "done"]
                         /\ UNCHANGED <<raised, calls>>
                    ELSE IF ~Guard(s)
                    THEN /\ Fail(r, HTTPException(400,
                                       "Only SELECT statements are allowed", <<>>))
                         /\ UNCHANGED calls
                    ELSE /\ calls' = [calls EXCEPT ![r] =
                                         Append(@, Call("execute", <<>>, <<>>, s))]
                         /\ pc' = [pc EXCEPT ![r] = "await_execute"]
                         /\ UNCHANGED <<raised, resp>>
    /\ UNCHANGED fnVars
    /\ UNCHANGED <<catalog, endpoint, question, table, columns>>

\* execute_sql_route resumes with the rows of the generated query
execute_sql_route_resume(r) ==
    /\ pc[r] = "await_execute"
    /\ loop = 0
    /\ \/ Fail(r, DatabaseError)
       \/ \E rows \in RowSets :
             /\ resp' = [resp EXCEPT ![r] = ExecuteResponse(sql[r], rows)]
             /\ pc' = [pc EXCEPT ![r] = "done"]
             /\ UNCHANGED raised
    /\ UNCHANGED fnVars
    /\ UNCHANGED <<catalog, endpoint, question, table, columns, sql, calls, loop>>

\* the steps request r's handler can take
Step(r) ==
    \/ Receive(r)
    \/ detect_table_resume(r)
    \/ get_schema_for_question_resume(r)
    \/ generate_sql_return(r)
    \/ execute_sql_route_resume(r)

Next ==
    \/ \E r \in Requests : Receive(r)
    \/ \E r \in Requests : detect_table_resume(r)
    \/ \E r \in Requests : get_schema_for_question_resume(r)
    \/ \E r \in Requests : generate_sql_return(r)
    \/ \E r \in Requests : execute_sql_route_resume(r)

Spec == Init /\ [][Next]_vars

(***************************************************************************)
(* The functions applied on their own, to inputs drawn from bounded sets   *)
(***************************************************************************)

\* no request is in flight
Quiet == InitHandlers /\ catalog = CatalogShadowed

Range(f) == {f[i] : i \in DOMAIN f}

MaxPad == 2

\* runs of whitespace of at most MaxPad characters
Pads == UNION {[1..n -> {" ", "\n"}] : n \in 0..MaxPad}

T_Orders == <<"O", "r", "d", "e", "r", "s">>

TableNames == {T_orders, T_order, T_Orders, T_Users, T_logs}

MaxTables == 3

\* the table lists a catalog may hold: distinct names, in any order
TableLists ==
    UNION {{f \in [1..n -> TableNames] : \A i, j \in 1..n : i # j => f[i] # f[j]} :
              n \in 0..MaxTables}

Q_order == <<"O", "R", "D", "E", "R", "?">>

Q_users == <<"u", "s", "e", "r", "s">>

Q_both == <<"u", "s", "e", "r", "s", " ", "o", "r", "d", "e", "r", "s">>

DetectQuestions == Questions \cup {Q_users, Q_both, Q_order, <<>>}

InitDetect ==
    /\ Quiet
    /\ arg \in [question : DetectQuestions, rows : TableLists]
    /\ out = <<>>

ApplyDetect ==
    /\ out = <<>>
    /\ out' = <<detect_table(arg.question, arg.rows)>>
    /\ UNCHANGED <<arg, handlerVars>>

SpecDetect == InitDetect /\ [][ApplyDetect]_vars

G_comment == <<"-", "-", " ", "c", "\n">>

G_leads == Pads \cup {G_comment, <<"x">>, <<"(">>}

G_cores == {Select, <<"S", "E", "L", "E", "C", "T">>, <<"S", "e", "L", "e", "c", "T">>,
            <<"s", "e", "l", "e", "c">>, <<"d", "e", "l", "e", "t", "e">>,
            <<"w", "i", "t", "h", " ", "x", " ", "a", "s", " ", "(", "s", "e", "l",
              "e", "c", "t">>, <<>>}

G_drop == <<" ", "1", ";", " ", "D", "R", "O", "P", " ", "T", "A", "B", "L", "E", " ", "t">>

G_tails == {<<>>, <<" ", "1">>, G_drop, <<"\n">>, <<"t">>}

InitGuard ==
    /\ Quiet
    /\ \E lead \in G_leads, core \in G_cores, tail \in G_tails :
          arg = lead \o core \o tail
    /\ out = <<>>

ApplyGuard ==
    /\ out = <<>>
    /\ out' = <<Guard(arg)>>
    /\ UNCHANGED <<arg, handlerVars>>

SpecGuard == InitGuard /\ [][ApplyGuard]_vars

P_select == <<"S", "E", "L", "E", "C", "T", " ", "*", " ", "F", "R", "O", "M", " ",
              "o", "r", "d", "e", "r", "s">>

P_quoted == <<"s", "e", "l", "e", "c", "t", " ", Backtick, "a", Backtick>>

P_two == <<"a", Backtick, Backtick>>

P_lead == <<Backtick, "s", "q", "l">>

\* statements holding no fence marker
P_bodies == {P_select, P_quoted, P_two, P_lead, <<"s", "q", "l">>, <<>>}

\* an answer with no fence marker, or a statement between the two markers
PostInputs ==
    {[raw |-> a \o b \o c, body |-> a \o b \o c, wrapped |-> FALSE] :
        a \in Pads, b \in P_bodies, c \in Pads}
    \cup
    {[raw |-> a \o FenceSql \o c \o b \o c \o Fence \o a, body |-> c \o b \o c,
      wrapped |-> TRUE] :
        a \in Pads, b \in P_bodies, c \in Pads}

InitPost ==
    /\ Quiet
    /\ arg \in PostInputs
    /\ out = <<>>

MaxApply == 2

\* the clean-up applied to the answer, then to its own result
ApplyPost ==
    /\ Len(out) < MaxApply
    /\ out' = Append(out, PostProcess(IF out = <<>> THEN arg.raw ELSE out[Len(out)]))
    /\ UNCHANGED <<arg, handlerVars>>

SpecPost == InitPost /\ [][ApplyPost]_vars

(***************************************************************************)
(* What the properties are stated with                                     *)
(***************************************************************************)

\* name, lowercased, occurs in q, lowercased, at offset i
OccursAt(name, q, i) ==
    /\ i + Len(name) <= Len(q)
    /\ \A k \in 1..Len(name) : LowerChar(q[i + k]) = LowerChar(name[k])

\* the names of S that occur in q whatever the letter case
Matching(q, S) == {name \in S : \E i \in 0..Len(q) : OccursAt(name, q, i)}

\* the names of the tables of the application schema
PublicTables(cat) == {t.name : t \in {x \in cat.tables : x.schema = "public"}}

\* the columns of the application schema's table, in ordinal order
PublicColumns(cat, name) ==
    LET rows == {c \in cat.columns : c.schema = "public" /\ c.name = name}
        f == CHOOSE g \in Orderings(rows) :
                 \A i, j \in DOMAIN g : i < j => g[i].pos < g[j].pos
    IN  [i \in DOMAIN f |-> f[i].column]

\* s is whitespace, then the keyword select in any letter case, then anything
SelectPrefixed(s) ==
    \E i \in 0..Len(s) :
        /\ \A k \in 1..i : IsSpace(s[k])
        /\ i + Len(Select) <= Len(s)
        /\ \A k \in 1..Len(Select) : LowerChar(s[i + k]) = Select[k]

\* t is s without its leading and trailing whitespace
IsTrimOf(t, s) ==
    \E i \in 0..Len(s) : \E j \in i..Len(s) :
        /\ t = SubSeq(s, i + 1, j)
        /\ \A k \in 1..i : IsSpace(s[k])
        /\ \A k \in (j + 1)..Len(s) : IsSpace(s[k])
        /\ t # <<>> => ~IsSpace(t[1]) /\ ~IsSpace(t[Len(t)])

Ops(r) == [i \in DOMAIN calls[r] |-> calls[r][i].op]

\* request r's table query returned and its detection found no single table
DetectionFailed(r) ==
    /\ pc[r] = "done"
    /\ raised[r] # DatabaseError
    /\ Cardinality(Matching(question[r], PublicTables(catalog))) # 1

\* request r's generation returned a statement the read-only policy forbids
PolicyViolated(r) ==
    /\ pc[r] = "done"
    /\ endpoint[r] = "execute"
    /\ Len(calls[r]) >= 3
    /\ raised[r] # OpenAIError
    /\ ~SelectPrefixed(sql[r])

(***************************************************************************)
(* C1: every /execute-sql request whose question matches zero or several   *)
(* known table names is answered with status 400 and a detail that lists   *)
(* the candidates.                                                         *)
(***************************************************************************)
C1_AmbiguityIs400 ==
    \A r \in Requests :
        (endpoint[r] = "execute" /\ DetectionFailed(r)) =>
            /\ resp[r].status = 400
            /\ Range(resp[r].detail.candidates) =
                  Matching(question[r], PublicTables(catalog))

(***************************************************************************)
(* C2: every /execute-sql request whose detection succeeds and whose       *)
(* generated SQL does not start with select (trimmed, lowercased) is       *)
(* answered with status 400, not 500.                                      *)
(***************************************************************************)
C2_NonSelectIs400 ==
    \A r \in Requests : PolicyViolated(r) => resp[r].status = 400

(***************************************************************************)
(* C3: the generated SQL is sent to the database only if, trimmed and      *)
(* lowercased, it starts with select; a request whose SQL the guard        *)
(* rejected never executes it, at any later point.                         *)
(***************************************************************************)
C3_ExecuteOnlySelect ==
    \A r \in Requests :
        /\ \A i \in DOMAIN calls[r] :
              calls[r][i].op = "execute" =>
                  /\ endpoint[r] = "execute"
                  /\ calls[r][i].sql = sql[r]
                  /\ SelectPrefixed(calls[r][i].sql)
        /\ PolicyViolated(r) => \A i \in DOMAIN calls[r] : calls[r][i].op # "execute"

C3_Witness ==
    \E r, q \in Requests :
        /\ PolicyViolated(r)
        /\ Contains(Lower(sql[r]), Select)
        /\ pc[q] = "done" /\ Len(calls[q]) = 4 /\ resp[q].status = 200

(***************************************************************************)
(* C6: every failure of a /generate-sql request (detection with zero or    *)
(* several candidates, the column lookup, the generation call) is answered *)
(* with status 500 and a detail carrying the failure's message; no failure *)
(* of this endpoint has another status.                                    *)
(***************************************************************************)
C6_GenerateFailureIs500 ==
    \A r \in Requests :
        (pc[r] = "done" /\ endpoint[r] = "generate") =>
            /\ resp[r].status \in {200, 500}
            /\ resp[r].status = 200 <=> raised[r] = NoException
            /\ resp[r].status = 200 => Len(calls[r]) = 3
            /\ DetectionFailed(r) => resp[r].status = 500
            /\ raised[r] # NoException =>
                  /\ resp[r].status = 500
                  /\ resp[r].prefix = ""
                  /\ resp[r].detail.msg = raised[r].msg
                  /\ resp[r].detail.candidates = raised[r].candidates

C6_Witness ==
    \E r, q \in Requests :
        /\ endpoint[r] = "generate" /\ DetectionFailed(r) /\ resp[r].status = 500
        /\ endpoint[q] = "generate" /\ pc[q] = "done"
        /\ raised[q] \in {OpenAIError, DatabaseError} /\ Len(calls[q]) >= 2

(***************************************************************************)
(* C8: while one request waits for its model response, any other request   *)
(* that has not been answered can take a step (start, complete a database  *)
(* round trip, respond).                                                   *)
(***************************************************************************)
C8_OthersRunDuringGeneration ==
    \A r, q \in Requests :
        (pc[r] = "in_generate" /\ q # r /\ pc[q] # "done") => ENABLED Step(q)

(***************************************************************************)
(* C9: in both handlers the collaborators are called in the order table    *)
(* query, column lookup, generation (then execution), the column lookup    *)
(* and the generation only once detection has resolved to the one matching *)
(* table; when zero or several tables match the request fails with no      *)
(* column lookup, no generation, no execution and no second table query.   *)
(***************************************************************************)
Pipeline == <<"list_tables", "list_columns", "generate", "execute">>

C9_DetectionFirst ==
    \A r \in Requests :
        /\ Len(calls[r]) <= Len(Pipeline)
        /\ \A i \in DOMAIN calls[r] : calls[r][i].op = Pipeline[i]
        /\ Len(calls[r]) >= 2 =>
              Matching(question[r], PublicTables(catalog)) = {calls[r][2].table}
        /\ Len(calls[r]) >= 3 => calls[r][3].table = calls[r][2].table
        /\ DetectionFailed(r) =>
              /\ Ops(r) = <<"list_tables">>
              /\ resp[r].status >= 400

C9_Witness ==
    \E r, q \in Requests :
        /\ DetectionFailed(r)
        /\ Cardinality(Matching(question[r], PublicTables(catalog))) = 2
        /\ Ops(r) = <<"list_tables">>
        /\ DetectionFailed(q)
        /\ Matching(question[q], PublicTables(catalog)) = {}

(***************************************************************************)
(* C10: both Schema Inspector queries are filtered to the public schema:   *)
(* the detected table is a table of that schema and the column list built  *)
(* for it holds that schema's columns of the table, in ordinal order, even *)
(* when another schema holds a table of the same name.                     *)
(***************************************************************************)
C10_PublicSchemaOnly ==
    \A r \in Requests :
        /\ Len(calls[r]) >= 2 => table[r] \in PublicTables(catalog)
        /\ Len(calls[r]) >= 3 => columns[r] = PublicColumns(catalog, table[r])

(***************************************************************************)
(* C4: detect_table returns t exactly when t is the single known table     *)
(* whose lowercase name is a substring of the lowercase question; with     *)
(* zero or several matching names it fails, with status 400, and the       *)
(* failure lists exactly the matching names (none when none match).        *)
(***************************************************************************)
C4_DetectTable ==
    out # <<>> =>
        LET M == Matching(arg.question, Range(arg.rows))
            d == out[1]
        IN  /\ d.ok <=> Cardinality(M) = 1
            /\ d.ok => M = {d.table} /\ d.exc = NoException
            /\ ~d.ok =>
                  /\ d.exc.kind = "HTTPException"
                  /\ d.exc.status = 400
                  /\ Range(d.exc.candidates) = M
                  /\ Len(d.exc.candidates) = Cardinality(M)

C4_Witness ==
    /\ out # <<>>
    /\ out[1].ok
    /\ out[1].table = T_orders
    /\ arg.question = Q_orders
    /\ Len(arg.rows) >= 2

(***************************************************************************)
(* C5: the read-only guard accepts a string exactly when the string,       *)
(* without its leading and trailing whitespace and lowercased, starts with *)
(* select: a select followed by a destructive statement passes, a select   *)
(* behind a comment or inside a WITH clause does not.                      *)
(***************************************************************************)
C5_GuardIsPrefixCheck ==
    out # <<>> =>
        /\ out[1] <=> SelectPrefixed(arg)
        /\ (\E pad \in Pads : arg = pad \o Select \o G_drop) => out[1]
        /\ (\E core \in G_cores, tail \in G_tails : arg = G_comment \o core \o tail)
              => ~out[1]
        /\ (Len(arg) >= 4 /\ Lower(SubSeq(arg, 1, 4)) = <<"w", "i", "t", "h">>)
              => ~out[1]

C5_Witness ==
    /\ out = <<TRUE>>
    /\ \E pad \in Pads :
          pad # <<>> /\ arg = pad \o <<"S", "e", "L", "e", "c", "T">> \o G_drop

(***************************************************************************)
(* C7: the clean-up of an answer holding no fence marker returns it with   *)
(* only its surrounding whitespace removed, and cleaning the result again  *)
(* changes nothing; an answer made of a statement between the opening      *)
(* marker with the sql tag and the closing marker cleans to the statement. *)
(***************************************************************************)
C7_PostProcess ==
    /\ (out # <<>> /\ ~Contains(arg.raw, Fence)) => IsTrimOf(out[1], arg.raw)
    /\ (Len(out) >= 2 /\ ~Contains(arg.raw, Fence)) =>
          \A i \in 2..Len(out) : out[i] = out[1]
    /\ (out # <<>> /\ arg.wrapped) => IsTrimOf(out[1], arg.body)

C7_Witness ==
    /\ Len(out) >= 2
    /\ arg.wrapped
    /\ arg.body = <<"\n">> \o P_select \o <<"\n">>
    /\ out[1] = P_select

====
